---- MODULE Spec2Model ----
(***************************************************************************)
(* Model of the LFSR engine of lfsr.cpp / lfsr.h: one LFSR instance, its   *)
(* fields, and one action per public operation.  Integers keep the widths  *)
(* of the C++ fields (uint16_t register_state, uint32_t period_counter).   *)
(* C++ bool values are modelled as the integers 0 and 1.                    *)
(***************************************************************************)
EXTENDS Integers, Naturals, Sequences, FiniteSets, TLC

(* ---------------- bounds of the model ---------------- *)

\* bit generation is explored while period_counter stays <= MaxSteps
MaxSteps == 31
\* selfTest is explored on instances whose register_size is <= MaxTestWidth
MaxTestWidth == 5
\* every 16-bit value 0..MaxSeed is tried as seed / new_state / new_seed
MaxSeed == 2
\* every value 0..MaxBits is tried as max_bits of generateSequence
MaxBits == 2

(* ---------------- program constants ---------------- *)

MIN_SIZE == 3
MAX_SIZE == 16

\* LFSR::PRIMITIVE_POLYNOMIALS, index = register size (0-based in C++)
PRIMITIVE_POLYNOMIALS ==
    << 0, 0, 0, 3, 9, 18, 33, 65, 142, 264, 516, 1026, 2089, 4109, 8213,
       16385, 32790 >>

(* ---------------- machine arithmetic ---------------- *)

RECURSIVE Pow2(_)
Pow2(n) == IF n = 0 THEN 1 ELSE 2 * Pow2(n - 1)

\* uint16_t truncation.  period_counter is a uint32_t; the model keeps it
\* <= MaxSteps + 101, far below 2^32, so its increment never wraps.
U16(x) == x % 65536

RECURSIVE BitAnd(_, _)
BitAnd(a, b) ==
    IF a = 0 \/ b = 0 THEN 0
    ELSE (IF a % 2 = 1 /\ b % 2 = 1 THEN 1 ELSE 0) + 2 * BitAnd(a \div 2, b \div 2)

RECURSIVE BitOr(_, _)
BitOr(a, b) ==
    IF a = 0 THEN b
    ELSE IF b = 0 THEN a
    ELSE (IF a % 2 = 1 \/ b % 2 = 1 THEN 1 ELSE 0) + 2 * BitOr(a \div 2, b \div 2)

\* bool ^ bool on 0/1
Xor(a, b) == (a + b) % 2

Min(a, b) == IF a < b THEN a ELSE b

\* the element of a one-element set.  The loops below bind the state a pass
\* leaves as the element of a set, so that each pass works on a value.
The(S) == CHOOSE x \in S : TRUE

(* ---------------- inputs ---------------- *)

\* uint8_t size arguments tried by the constructor
SizeInputs == 0 .. (MAX_SIZE + 1) \cup {255}

\* uint16_t arguments: small values, 0x8 and 0x8000 (nonzero values whose
\* low `size` bits are all zero for size 3, resp. every size below 16),
\* 0x5, 0x1F and 0xAB (the examples' seeds) and 0xFFFF
WordInputs == (0 .. MaxSeed) \cup {5, 8, 31, 171, 32768, 65535}

\* uint32_t max_bits arguments: small values and one above the small periods
BitsInputs == (0 .. MaxBits) \cup {40}

(* ---------------- state ---------------- *)

VARIABLES
    constructed,      \* an LFSR instance exists
    register_state,   \* uint16_t register_state
    polynomial_mask,  \* uint16_t polynomial_mask
    register_size,    \* uint8_t  register_size
    period_counter,   \* uint32_t period_counter
    max_period,       \* uint32_t max_period
    op,               \* the last operation called
    args,             \* the arguments of that call
    result,           \* its return value (bool as 0/1), 0 when it returns none
    sequence,         \* the vector returned by generateSequence, else << >>
    text,             \* the string returned by getStateString, else << >>
    path,             \* the return path selfTest took and its bits_generated
    err,              \* the exception the last call threw, or "none"
    start_state,      \* register_state as the constructor left it, and
    bit_calls         \* the nextBit calls since, while nothing but nextBit
                      \* was called on the instance; both -1 after that

fields == << register_state, polynomial_mask, register_size, period_counter,
             max_period >>
vars == << constructed, register_state, polynomial_mask, register_size,
           period_counter, max_period, op, args, result, sequence, text,
           path, err, start_state, bit_calls >>

\* path while the last call was not selfTest
NoPath == [ exit |-> "none", bits_generated |-> 0 ]

\* the instance as a value the member functions work on
Self ==
    [ register_state |-> register_state, polynomial_mask |-> polynomial_mask,
      register_size |-> register_size, period_counter |-> period_counter,
      max_period |-> max_period ]

\* store the instance the member function left
Store(self) ==
    /\ register_state' = self.register_state
    /\ polynomial_mask' = self.polynomial_mask
    /\ register_size' = self.register_size
    /\ period_counter' = self.period_counter
    /\ max_period' = self.max_period

(* ---------------- member functions ---------------- *)

\* validateSize with the upper limit off by one
validateSize_offByOne(size) == size < MIN_SIZE \/ size >= MAX_SIZE

\* validateSize: TRUE when it throws
validateSize(size) == size < MIN_SIZE \/ size > MAX_SIZE

\* the seed rule without the coercion of a masked value of zero
SeedState_noCoercion(size, seed) ==
    IF seed = 0 THEN 1 ELSE BitAnd(seed, U16(Pow2(size) - 1))

\* the seed rule shared by the constructor and reset
SeedState(size, seed) ==
    IF seed = 0 THEN 1
    ELSE LET mask == U16(Pow2(size) - 1)
             masked == BitAnd(seed, mask)
         IN  IF masked = 0 THEN 1 ELSE masked

\* the constructor reading the table one entry too low
LFSR_wrongIndex(size, initial_seed) ==
    [ register_state |-> SeedState(size, initial_seed),
      polynomial_mask |-> PRIMITIVE_POLYNOMIALS[size],
      register_size |-> size,
      period_counter |-> 0,
      max_period |-> Pow2(size) - 1 ]

\* LFSR::LFSR, after validateSize passed
LFSR(size, initial_seed) ==
    [ register_state |-> SeedState(size, initial_seed),
      polynomial_mask |-> PRIMITIVE_POLYNOMIALS[size + 1],
      register_size |-> size,
      period_counter |-> 0,
      max_period |-> Pow2(size) - 1 ]

\* the feedback loop with |= in place of ^=
RECURSIVE FeedbackLoop_or(_, _)
FeedbackLoop_or(temp, feedback) ==
    IF temp = 0 THEN feedback
    ELSE FeedbackLoop_or(temp \div 2, IF feedback = 1 \/ temp % 2 = 1 THEN 1 ELSE 0)

\* the while (temp) loop of calculateNextBit
RECURSIVE FeedbackLoop(_, _)
FeedbackLoop(temp, feedback) ==
    IF temp = 0 THEN feedback
    ELSE FeedbackLoop(temp \div 2, Xor(feedback, temp % 2))

\* bit i of x
Bit(x, i) == (x \div Pow2(i)) % 2

\* calculateNextBit with the feedback shifted to bit register_size
calculateNextBit_msbOff(self) ==
    LET temp == BitAnd(self.register_state, self.polynomial_mask)
        feedback == FeedbackLoop(temp, 0)
        shifted == BitOr(self.register_state \div 2,
                         IF feedback = 1 THEN Pow2(self.register_size) ELSE 0)
    IN  [ self |-> [ self EXCEPT !.register_state = U16(shifted),
                                 !.period_counter = @ + 1 ],
          ret |-> feedback ]

calculateNextBit(self) ==
    LET temp == BitAnd(self.register_state, self.polynomial_mask)
        feedback == FeedbackLoop(temp, 0)
        shifted == BitOr(self.register_state \div 2,
                         IF feedback = 1 THEN Pow2(self.register_size - 1) ELSE 0)
    IN  [ self |-> [ self EXCEPT !.register_state = U16(shifted),
                                 !.period_counter = @ + 1 ],
          ret |-> feedback ]

nextBit(self) == calculateNextBit(self)

\* one pass of the for loop of nextByte / nextWord at index c.i
PackBody(c) ==
    LET r == calculateNextBit(c.self)
    IN  [ self |-> r.self, i |-> c.i + 1,
          ret |-> BitOr(c.ret, IF r.ret = 1 THEN Pow2(c.i) ELSE 0) ]

\* the for loop of nextByte / nextWord, up to index n - 1
RECURSIVE PackLoop(_, _)
PackLoop(c, n) ==
    IF c.i >= n THEN c
    ELSE The({ PackLoop(after, n) : after \in { PackBody(c) } })

\* nextByte with the loop one pass short
nextByte_short(self) == PackLoop([ self |-> self, i |-> 0, ret |-> 0 ], 7)

nextByte(self) == PackLoop([ self |-> self, i |-> 0, ret |-> 0 ], 8)

nextWord(self) == PackLoop([ self |-> self, i |-> 0, ret |-> 0 ], 16)

\* the zero check of setState dropped
setStateThrows_never(new_state) == FALSE

\* the zero check of setState: TRUE when it throws
setStateThrows(new_state) == new_state = 0

\* setState without the mask
setState_noMask(self, new_state) ==
    [ self EXCEPT !.register_state = new_state, !.period_counter = 0 ]

\* setState past the zero check
setState(self, new_state) ==
    LET mask == U16(Pow2(self.register_size) - 1)
    IN  [ self EXCEPT !.register_state = BitAnd(new_state, mask),
                      !.period_counter = 0 ]

\* reset that leaves period_counter alone
reset_keepCounter(self, new_seed) ==
    [ self EXCEPT !.register_state = SeedState(self.register_size, new_seed) ]

\* reset that takes new_seed = 0 to mean the current state
reset_currentState(self, new_seed) ==
    [ self EXCEPT !.register_state =
                      IF new_seed = 0 THEN self.register_state
                      ELSE SeedState(self.register_size, new_seed),
                  !.period_counter = 0 ]

reset(self, new_seed) ==
    [ self EXCEPT !.register_state = SeedState(self.register_size, new_seed),
                  !.period_counter = 0 ]

\* std::bitset<16>(x).to_string(): 16 characters, most significant bit first
BitsetString(x) == [ i \in 1 .. 16 |-> IF Bit(x, 16 - i) = 1 THEN "1" ELSE "0" ]

\* getStateString: substr(16 - register_size) keeps the characters from
\* position 16 - register_size (counted from 0) to the end
getStateString(self) ==
    SubSeq(BitsetString(self.register_state), (16 - self.register_size) + 1, 16)

\* isPeriodComplete with > in place of >=
isPeriodComplete_strict(self) == self.period_counter > self.max_period

isPeriodComplete(self) == self.period_counter >= self.max_period

\* one pass of the for loop of generateSequence
SequenceBody(c) ==
    LET r == nextBit(c.self)
    IN  [ self |-> r.self, i |-> c.i + 1, ret |-> Append(c.ret, r.ret) ]

\* the for loop of generateSequence
RECURSIVE SequenceLoop(_, _)
SequenceLoop(c, limit) ==
    IF c.i >= limit THEN c
    ELSE The({ SequenceLoop(after, limit) : after \in { SequenceBody(c) } })

\* the limit without the max_bits == 0 case
generateLimit_noDefault(self, max_bits) == Min(max_bits, self.max_period)

generateLimit(self, max_bits) ==
    IF max_bits = 0 THEN self.max_period ELSE Min(max_bits, self.max_period)

generateSequence(self, max_bits) ==
    SequenceLoop([ self |-> self, i |-> 0, ret |-> << >> ],
                 generateLimit(self, max_bits))

\* a restore of register_state alone
Restore_stateOnly(self, original_state, original_counter) ==
    [ self EXCEPT !.register_state = original_state ]

\* selfTest: the restore of register_state and period_counter
Restore(self, original_state, original_counter) ==
    [ self EXCEPT !.register_state = original_state,
                  !.period_counter = original_counter ]

\* Test 1 of selfTest: one pass of the for loop; c.ret = 0 after the
\* return of the zero check
StuckBody(c) ==
    LET r == nextBit(c.self)
    IN  [ self |-> r.self, i |-> c.i + 1,
          ret |-> IF r.self.register_state = 0 THEN 0 ELSE 1 ]

\* Test 1 of selfTest: the for loop; ret = 1 when no state of the 10 steps
\* was zero
RECURSIVE StuckLoop(_)
StuckLoop(c) ==
    IF c.ret = 0 \/ c.i >= 10 THEN c
    ELSE The({ StuckLoop(after) : after \in { StuckBody(c) } })

\* the body of the do-while loop without the safety check
PeriodBody_noSafety(c) ==
    LET r == nextBit(c.self)
    IN  [ self |-> r.self, start |-> c.start,
          bits_generated |-> c.bits_generated + 1,
          exit |-> IF r.self.register_state # c.start THEN "loop"
                   ELSE "closed" ]

\* Test 2 of selfTest: one pass through the body of the do-while loop.
\* c.exit is "loop" while the loop goes on, "safety" after the return of the
\* safety check and "closed" after the loop condition failed.
PeriodBody(c) ==
    LET r == nextBit(c.self)
        n == c.bits_generated + 1
    IN  [ self |-> r.self, start |-> c.start, bits_generated |-> n,
          exit |-> IF n > r.self.max_period + 100 THEN "safety"
                   ELSE IF r.self.register_state # c.start THEN "loop"
                   ELSE "closed" ]

\* the do-while loop run for at most k passes (evaluated by halving k, which
\* keeps the evaluation depth logarithmic; the passes are the same)
RECURSIVE PeriodLoop(_, _)
PeriodLoop(c, k) ==
    IF c.exit # "loop" \/ k = 0 THEN c
    ELSE IF k = 1 THEN PeriodBody(c)
    ELSE The({ IF half.exit # "loop" THEN half
               ELSE PeriodLoop(half, k - (k \div 2))
               : half \in { PeriodLoop(c, k \div 2) } })

\* the passes the safety check allows before it returns
PeriodPasses(self) == self.max_period + 101

\* the final comparison with <= in place of ==
PeriodResult_atMost(t2) ==
    IF t2.exit = "closed" /\ t2.bits_generated <= t2.self.max_period
    THEN 1 ELSE 0

\* the value selfTest returns after Test 2
PeriodResult(t2) ==
    IF t2.exit = "closed" /\ t2.bits_generated = t2.self.max_period
    THEN 1 ELSE 0

selfTest(self) ==
    LET original_state == self.register_state
        original_counter == self.period_counter
        t1 == StuckLoop([ self |-> self, i |-> 0, ret |-> 1 ])
    IN  IF t1.ret = 0
        THEN [ self |-> Restore(t1.self, original_state, original_counter),
               ret |-> 0, exit |-> "stuck", bits_generated |-> 0 ]
        ELSE LET s2 == reset(t1.self, original_state)
                 t2 == PeriodLoop([ self |-> s2, start |-> s2.register_state,
                                    bits_generated |-> 0, exit |-> "loop" ],
                                  PeriodPasses(s2))
             IN  [ self |-> Restore(t2.self, original_state, original_counter),
                   ret |-> PeriodResult(t2),
                   exit |-> t2.exit, bits_generated |-> t2.bits_generated ]

(* ---------------- actions ---------------- *)

Init ==
    /\ constructed = FALSE
    /\ register_state = 0
    /\ polynomial_mask = 0
    /\ register_size = 0
    /\ period_counter = 0
    /\ max_period = 0
    /\ op = "none"
    /\ args = << >>
    /\ result = 0
    /\ sequence = << >>
    /\ text = << >>
    /\ path = NoPath
    /\ err = "none"
    /\ start_state = -1
    /\ bit_calls = -1

\* new LFSR(size, initial_seed); a throwing constructor leaves no instance
Construct(size, initial_seed) ==
    /\ ~constructed
    /\ op' = "new"
    /\ args' = << size, initial_seed >>
    /\ result' = 0
    /\ sequence' = << >>
    /\ text' = << >>
    /\ path' = NoPath
    /\ IF validateSize(size)
       THEN /\ err' = "InvalidConfiguration"
            /\ UNCHANGED << constructed, fields, start_state, bit_calls >>
       ELSE /\ err' = "none"
            /\ constructed' = TRUE
            /\ Store(LFSR(size, initial_seed))
            /\ start_state' = LFSR(size, initial_seed).register_state
            /\ bit_calls' = 0

NextBit ==
    /\ constructed
    /\ period_counter + 1 <= MaxSteps
    /\ LET r == nextBit(Self)
       IN  /\ Store(r.self)
           /\ result' = r.ret
    /\ op' = "next_bit"
    /\ args' = << >>
    /\ sequence' = << >>
    /\ text' = << >>
    /\ path' = NoPath
    /\ err' = "none"
    /\ bit_calls' = IF bit_calls >= 0 THEN bit_calls + 1 ELSE -1
    /\ UNCHANGED << constructed, start_state >>

NextByte ==
    /\ constructed
    /\ period_counter + 8 <= MaxSteps
    /\ LET r == nextByte(Self)
       IN  /\ Store(r.self)
           /\ result' = r.ret
    /\ op' = "next_byte"
    /\ args' = << >>
    /\ sequence' = << >>
    /\ text' = << >>
    /\ path' = NoPath
    /\ err' = "none"
    /\ bit_calls' = -1
    /\ start_state' = -1
    /\ UNCHANGED constructed

NextWord ==
    /\ constructed
    /\ period_counter + 16 <= MaxSteps
    /\ LET r == nextWord(Self)
       IN  /\ Store(r.self)
           /\ result' = r.ret
    /\ op' = "next_word"
    /\ args' = << >>
    /\ sequence' = << >>
    /\ text' = << >>
    /\ path' = NoPath
    /\ err' = "none"
    /\ bit_calls' = -1
    /\ start_state' = -1
    /\ UNCHANGED constructed

SetState(new_state) ==
    /\ constructed
    /\ op' = "set_state"
    /\ args' = << new_state >>
    /\ result' = 0
    /\ sequence' = << >>
    /\ text' = << >>
    /\ path' = NoPath
    /\ bit_calls' = -1
    /\ IF setStateThrows(new_state)
       THEN /\ err' = "InvalidState"
            /\ UNCHANGED fields
       ELSE /\ err' = "none"
            /\ Store(setState(Self, new_state))
    /\ start_state' = -1
    /\ UNCHANGED constructed

Reset(new_seed) ==
    /\ constructed
    /\ Store(reset(Self, new_seed))
    /\ op' = "reset"
    /\ args' = << new_seed >>
    /\ result' = 0
    /\ sequence' = << >>
    /\ text' = << >>
    /\ path' = NoPath
    /\ err' = "none"
    /\ bit_calls' = -1
    /\ start_state' = -1
    /\ UNCHANGED constructed

GenerateSequence(max_bits) ==
    /\ constructed
    /\ period_counter + generateLimit(Self, max_bits) <= MaxSteps
    /\ LET r == generateSequence(Self, max_bits)
       IN  /\ Store(r.self)
           /\ sequence' = r.ret
    /\ text' = << >>
    /\ path' = NoPath
    /\ op' = "generate_sequence"
    /\ args' = << max_bits >>
    /\ result' = 0
    /\ err' = "none"
    /\ bit_calls' = -1
    /\ start_state' = -1
    /\ UNCHANGED constructed

SelfTest ==
    /\ constructed
    /\ register_size <= MaxTestWidth
    /\ LET r == selfTest(Self)
       IN  /\ Store(r.self)
           /\ result' = r.ret
           /\ path' = [ exit |-> r.exit, bits_generated |-> r.bits_generated ]
    /\ op' = "self_test"
    /\ args' = << >>
    /\ sequence' = << >>
    /\ text' = << >>
    /\ err' = "none"
    /\ bit_calls' = -1
    /\ start_state' = -1
    /\ UNCHANGED constructed

\* getStateString() const
GetStateString ==
    /\ constructed
    /\ text' = getStateString(Self)
    /\ op' = "state_as_binary_string"
    /\ args' = << >>
    /\ result' = 0
    /\ sequence' = << >>
    /\ path' = NoPath
    /\ err' = "none"
    /\ UNCHANGED << constructed, fields, start_state, bit_calls >>

\* isPeriodComplete() const
IsPeriodComplete ==
    /\ constructed
    /\ result' = IF isPeriodComplete(Self) THEN 1 ELSE 0
    /\ op' = "is_period_complete"
    /\ args' = << >>
    /\ sequence' = << >>
    /\ text' = << >>
    /\ path' = NoPath
    /\ err' = "none"
    /\ UNCHANGED << constructed, fields, start_state, bit_calls >>

Next ==
    \/ \E size \in SizeInputs, seed \in WordInputs : Construct(size, seed)
    \/ NextBit
    \/ NextByte
    \/ NextWord
    \/ \E new_state \in WordInputs : SetState(new_state)
    \/ \E new_seed \in WordInputs : Reset(new_seed)
    \/ \E max_bits \in BitsInputs : GenerateSequence(max_bits)
    \/ SelfTest
    \/ GetStateString
    \/ IsPeriodComplete

Spec == Init /\ [][Next]_vars

(* ---------------- properties ---------------- *)

\* the operations that generate bits one register step at a time
BitOps == {"next_bit", "next_byte", "next_word"}

\* k sequential next_bit calls on the instance self: the instance they
\* leave and the bits they return, in order.  (The set constructor binds
\* the result of the first k - 1 calls to a value before the k-th call.)
RECURSIVE NextBits(_, _)
NextBits(self, k) ==
    IF k = 0 THEN [ self |-> self, bits |-> << >> ]
    ELSE CHOOSE after \in
           { [ self |-> nextBit(before.self).self,
               bits |-> Append(before.bits, nextBit(before.self).ret) ]
             : before \in { NextBits(self, k - 1) } } : TRUE

\* the value whose bit i is bits[i + 1]
RECURSIVE Packed(_)
Packed(bits) ==
    IF bits = << >> THEN 0 ELSE Head(bits) + 2 * Packed(Tail(bits))

\* the fields of the stored instance after the step equal those of self
StoredIs(self) ==
    /\ register_state' = self.register_state
    /\ period_counter' = self.period_counter
    /\ polynomial_mask' = self.polynomial_mask
    /\ register_size' = self.register_size
    /\ max_period' = self.max_period

\* C1: self_test() called on an instance just constructed with a supported
\* width and a nonzero seed s < 2^width returns true.
C1_SelfTestPasses ==
    [][ ( /\ op = "new" /\ err = "none"
          /\ args[2] # 0 /\ args[2] < Pow2(args[1])
          /\ op' = "self_test" )
        => result' = 1 ]_vars

\* C2: the register state is never 0: construction and reset leave it
\* nonzero, and next_bit, next_byte and next_word called on a nonzero state
\* leave it nonzero.
C2_StateNeverZero ==
    [][ /\ (op' \in {"new", "reset"} /\ constructed') => register_state' # 0
        /\ (op' \in BitOps /\ register_state # 0) => register_state' # 0 ]_vars

\* C3: set_state(v) is either rejected with an error or leaves the register
\* state nonzero.
C3_SetStateNeverZero ==
    op = "set_state" => (err = "InvalidState" \/ register_state # 0)

\* C4: after exactly max_period next_bit calls from the state the
\* constructor left, the register state is that state again.
C4_CycleClosure ==
    (constructed /\ bit_calls = max_period) => register_state = start_state

\* C5: set_state(0) always fails with InvalidState and leaves state and
\* step_counter as they were before the call.
C5_SetStateZeroRejected ==
    [][ (op' = "set_state" /\ args' = << 0 >>)
        => /\ err' = "InvalidState"
           /\ register_state' = register_state
           /\ period_counter' = period_counter ]_vars

C5_Witness ==
    /\ op = "set_state" /\ args = << 0 >> /\ err = "InvalidState"
    /\ period_counter = 9 /\ register_state > 1

\* C6: construction fails with InvalidConfiguration and leaves no instance
\* exactly when width is outside 3..16; inside 3..16 it succeeds for every
\* seed.
C6_ConstructionWidth ==
    op = "new"
    => /\ (err = "InvalidConfiguration") <=> (args[1] < 3 \/ args[1] > 16)
       /\ (err = "InvalidConfiguration") <=> ~constructed
       /\ (args[1] \in 3 .. 16) => (constructed /\ err = "none"
                                     /\ register_size = args[1])

C6_Witness ==
    /\ op = "new" /\ args[1] = 17 /\ err = "InvalidConfiguration"
    /\ ~constructed

\* C7: new(w, 0) yields state 1; new(w, s) with s # 0 yields state
\* s mod 2^w, coerced to 1 when that is 0; step_counter is 0; width 4 and
\* seed 0x5 give state 0b0101 and max_period 15.
C7_ConstructorSeed ==
    (op = "new" /\ constructed)
    => LET w == args[1]
           s == args[2]
       IN  /\ s = 0 => register_state = 1
           /\ (s # 0 /\ s % Pow2(w) # 0) => register_state = s % Pow2(w)
           /\ (s # 0 /\ s % Pow2(w) = 0) => register_state = 1
           /\ period_counter = 0
           /\ (w = 4 /\ s = 5) => (register_state = 5 /\ max_period = 15)

C7_Witness ==
    /\ op = "new" /\ args = << 4, 171 >> /\ register_state = 11
    /\ period_counter = 0 /\ max_period = 15

\* C8: next_bit returns feedback = parity of the set bits of
\* (state AND feedback_mask); the new state is the old state shifted right
\* by one with bit width-1 set to feedback; step_counter grows by exactly 1.
C8_NextBitTransition ==
    [][ op' = "next_bit"
        => LET tapped == { i \in 0 .. 15 : Bit(register_state, i) = 1
                                           /\ Bit(polynomial_mask, i) = 1 }
               feedback == Cardinality(tapped) % 2
           IN  /\ result' = feedback
               /\ \A i \in 0 .. 15 :
                     Bit(register_state', i) =
                        IF i = register_size - 1 THEN feedback
                        ELSE Bit(register_state, i + 1)
               /\ period_counter' = period_counter + 1 ]_vars

C8_Witness ==
    /\ op = "next_bit" /\ result = 1 /\ register_size = 8
    /\ register_state = 213 /\ period_counter = 1

\* C9: one next_byte() (next_word()) call returns the value whose bit i is
\* the i-th bit 8 (16) sequential next_bit() calls return from the same
\* state, and leaves state and step_counter as those calls leave them.
C9_ByteWordAreBits ==
    [][ /\ op' = "next_byte"
           => LET b == NextBits(Self, 8)
              IN  /\ result' = Packed(b.bits)
                  /\ StoredIs(b.self)
                  /\ period_counter' = period_counter + 8
        /\ op' = "next_word"
           => LET b == NextBits(Self, 16)
              IN  /\ result' = Packed(b.bits)
                  /\ StoredIs(b.self)
                  /\ period_counter' = period_counter + 16 ]_vars

C9_Witness ==
    /\ op = "next_byte" /\ result # 0 /\ result # 255
    /\ period_counter = 24 /\ register_size = 8

\* C10: generate_sequence(max_bits) returns min(max_bits, max_period) bits
\* when max_bits # 0 and exactly 2^width - 1 bits when max_bits = 0; its
\* k-th element is the bit of the k-th next_bit call, and state and
\* step_counter advance by that many steps.
C10_GenerateSequence ==
    [][ \A max_bits \in BitsInputs :
          (op' = "generate_sequence" /\ args' = << max_bits >>)
          => LET period == Pow2(register_size) - 1
                 len == IF max_bits # 0
                        THEN (IF max_bits < period THEN max_bits ELSE period)
                        ELSE period
                 b == NextBits(Self, len)
             IN  /\ Len(sequence') = len
                 /\ \A k \in 1 .. len : sequence'[k] = b.bits[k]
                 /\ StoredIs(b.self)
                 /\ period_counter' = period_counter + len ]_vars

C10_Witness ==
    /\ op = "generate_sequence" /\ args = << 40 >> /\ Len(sequence) = 15
    /\ period_counter = 16

C12_SelfTestPreserves ==
    [][ op' = "self_test"
        => /\ register_state' = register_state
           /\ period_counter' = period_counter
           /\ path'.exit \in {"stuck", "safety", "closed"} ]_vars

C12_Witness ==
    /\ op = "self_test" /\ path.exit = "closed" /\ result = 0
    /\ period_counter = 8 /\ register_state = 21 /\ register_size = 5

C14_ResetZeroKeepsState ==
    [][ (op' = "reset" /\ args' = << 0 >>)
        => /\ register_state' = register_state
           /\ period_counter' = 0 ]_vars

\* C15: an instance of width 3 constructed with state 0b001 has
\* feedback_mask 0x3 and max_period 7; its first next_bit leaves state 0b100
\* and returns 1; its state is 0b001 again after exactly 7 next_bit calls and
\* after no smaller number of calls.
C15_WidthThree ==
    (constructed /\ register_size = 3 /\ start_state = 1)
    => /\ polynomial_mask = 3
       /\ max_period = 7
       /\ (bit_calls = 1 /\ op = "next_bit")
             => (register_state = 4 /\ result = 1)
       /\ bit_calls \in 1 .. 6 => register_state # 1
       /\ bit_calls = 7 => register_state = 1

C15_Witness ==
    /\ register_size = 3 /\ start_state = 1 /\ bit_calls = 7
    /\ op = "next_bit" /\ register_state = 1 /\ period_counter = 7

\* the register states after each of k sequential next_bit calls on the
\* instance self, in order, and the instance the calls leave (evaluated by
\* halving k)
RECURSIVE States(_, _)
States(self, k) ==
    IF k = 0 THEN [ self |-> self, states |-> << >> ]
    ELSE IF k = 1
    THEN The({ [ self |-> r.self, states |-> << r.self.register_state >> ]
               : r \in { nextBit(self) } })
    ELSE The({ The({ [ self |-> b.self, states |-> a.states \o b.states ]
                     : b \in { States(a.self, k - (k \div 2)) } })
               : a \in { States(self, k \div 2) } })

\* C16: self_test() terminates: its period loop has returned after at most
\* max_period + 101 next_bit steps, and when the state has not come back to
\* the starting state within max_period + 100 steps the call returns false
\* at step max_period + 101.
C16_SelfTestTerminates ==
    [][ op' = "self_test"
        => \A orbit \in { States(me, me.max_period + 100).states : me \in { Self } } :
              /\ path'.exit # "loop"
              /\ path'.bits_generated <= max_period + 101
              /\ ( /\ path'.exit # "stuck"
                   /\ \A n \in 1 .. (max_period + 100) :
                         orbit[n] # register_state )
                 => /\ result' = 0
                    /\ path' = [ exit |-> "safety",
                                 bits_generated |-> max_period + 101 ] ]_vars

C16_Witness ==
    /\ op = "self_test" /\ result = 0 /\ register_size = 5
    /\ register_state = 5
    /\ path = [ exit |-> "safety", bits_generated |-> 132 ]

\* C17: self_test() returns true exactly when (a) the state is nonzero
\* after each of the first 10 next_bit steps from the current state and
\* (b) the smallest positive number of steps after which the state equals
\* the current state again is max_period; a shorter return, a longer
\* return and no return give false.
C17_SelfTestTrueIff ==
    [][ op' = "self_test"
        => \A orbit \in { States(me, me.max_period + 10).states : me \in { Self } } :
              (result' = 1)
              <=> /\ \A n \in 1 .. 10 : orbit[n] # 0
                  /\ orbit[max_period] = register_state
                  /\ \A n \in 1 .. (max_period - 1) :
                        orbit[n] # register_state ]_vars

C17_Witness ==
    /\ op = "self_test" /\ result = 1 /\ register_size = 4
    /\ register_state = 11 /\ path = [ exit |-> "closed", bits_generated |-> 15 ]

\* C18: step_counter is the number of bits generated since the last
\* construction, reset or successful set_state: those set it to 0, next_bit,
\* next_byte, next_word and generate_sequence add 1, 8, 16 and the length of
\* the returned sequence, and self_test, a failed set_state and the
\* accessors leave it alone; is_period_complete returns true exactly when
\* step_counter >= max_period.
C18_StepCounter ==
    [][ /\ (op' = "new" /\ constructed') => period_counter' = 0
        /\ op' = "reset" => period_counter' = 0
        /\ (op' = "set_state" /\ err' = "none") => period_counter' = 0
        /\ (op' = "set_state" /\ err' # "none")
              => period_counter' = period_counter
        /\ op' = "next_bit" => period_counter' = period_counter + 1
        /\ op' = "next_byte" => period_counter' = period_counter + 8
        /\ op' = "next_word" => period_counter' = period_counter + 16
        /\ op' = "generate_sequence"
              => period_counter' = period_counter + Len(sequence')
        /\ op' \in {"self_test", "state_as_binary_string"}
              => period_counter' = period_counter
        /\ op' = "is_period_complete"
              => /\ period_counter' = period_counter
                 /\ (result' = 1) <=> (period_counter >= max_period) ]_vars

C18_Witness ==
    /\ op = "is_period_complete" /\ result = 1 /\ register_size = 4
    /\ period_counter = 15

\* the value of four hexadecimal digits
Hex4(a, b, c, d) == ((a * 16 + b) * 16 + c) * 16 + d

\* the feedback masks the specification lists for the widths 3 .. 16
ListedMask ==
    [ w \in 3 .. 16 |->
        << Hex4(0,0,0,3), Hex4(0,0,0,9), Hex4(0,0,1,2), Hex4(0,0,2,1),
           Hex4(0,0,4,1), Hex4(0,0,8,14), Hex4(0,1,0,8), Hex4(0,2,0,4),
           Hex4(0,4,0,2), Hex4(0,8,2,9), Hex4(1,0,0,13), Hex4(2,0,1,5),
           Hex4(4,0,0,1), Hex4(8,0,1,6) >>[w - 2] ]

\* C19: once constructed, width is the constructed width, feedback_mask is
\* the listed entry for that width and max_period is 2^width - 1, and no
\* operation changes any of the three.
C19_ConfigurationFixed ==
    [][ /\ (op' = "new" /\ constructed') => register_size' = args'[1]
        /\ constructed' => /\ register_size' \in 3 .. 16
                           /\ polynomial_mask' = ListedMask[register_size']
                           /\ max_period' = Pow2(register_size') - 1
        /\ constructed => /\ constructed'
                          /\ register_size' = register_size
                          /\ polynomial_mask' = polynomial_mask
                          /\ max_period' = max_period ]_vars

C19_Witness ==
    /\ op = "set_state" /\ err = "none" /\ register_size = 12
    /\ polynomial_mask = 2089 /\ max_period = 4095

\* the value a string of binary digits, most significant first, denotes
RECURSIVE BinaryValue(_)
BinaryValue(str) ==
    IF str = << >> THEN 0
    ELSE 2 * BinaryValue(SubSeq(str, 1, Len(str) - 1))
         + (IF str[Len(str)] = "1" THEN 1 ELSE 0)

\* C20: state < 2^width in every reachable state, so the string
\* state_as_binary_string returns, the low `width` binary digits of the
\* state, denotes the state itself: no set bit is lost.
C20_WidthBound ==
    constructed
    => /\ register_state < Pow2(register_size)
       /\ op = "state_as_binary_string"
             => /\ Len(text) = register_size
                /\ BinaryValue(text) = register_state

C20_Witness ==
    /\ op = "state_as_binary_string" /\ register_size = 16
    /\ register_state = 65535 /\ Len(text) = 16 /\ BinaryValue(text) = 65535

====
